---------------------------- MODULE Spec2Model ----------------------------
(***************************************************************************)
(* A model of the CSV-to-ICS converter (src/main.py).                      *)
(*                                                                         *)
(* Text is a sequence of characters.  A character is a one-letter string;  *)
(* a run of characters that holds no white space and whose letters never   *)
(* matter one by one ("Dentist", "BEGIN:VEVENT") is written as one atom.   *)
(* The line break "\r\n" is one character: it is white space for           *)
(* str.strip() and it is what separates the lines of the written document. *)
(***************************************************************************)
EXTENDS Integers, Sequences, FiniteSets, TLC

VARIABLES
    exists,          \* the input file is there
    ahead,           \* lines the text layer decodes beyond the one asked for
    header,          \* the file's first line, [names, enc], or None
    rows,            \* the file's other lines: a sequence of [fields, enc]
    col_subject,     \* argument col_subject
    col_date,        \* argument col_date
    default_subject, \* argument default_subject
    pc,              \* where process_csv stands
    encoding,        \* the encoding file_obj was opened with
    h_utf8,          \* the handle opened at line 75
    h_cp1252,        \* the handle opened at line 80
    h_out,           \* the handle opened at line 120
    idx,             \* lines of data the reader has consumed
    ics_events,      \* the accumulated event lines
    processed_count, \* the accepted rows
    outcomes,        \* the outcome of every row the loop took, in order
    subjects,        \* subject_value of every accepted row, in order
    raised,          \* the exception that ended the try block, or "none"
    out_opens,       \* how often the output file was opened
    out_file,        \* the output file's text, or None while untouched
    reported,        \* the count logged at line 123, or -1
    ev_in,           \* generate_event_block alone: its arguments
    ev_out           \* generate_event_block alone: its result

vars == <<exists, ahead, header, rows, col_subject, col_date, default_subject,
          pc, encoding, h_utf8, h_cp1252, h_out, idx, ics_events,
          processed_count, outcomes, subjects, raised, out_opens, out_file,
          reported, ev_in, ev_out>>

-----------------------------------------------------------------------------
(* Bounds of the model *)

\* data lines of an input file
MaxRows == 2

\* lines decoded ahead of the line being read (one decoded chunk covers
\* the line asked for and up to this many more)
MaxAhead == 1

-----------------------------------------------------------------------------
(* Text *)

CRLF == "\r\n"

\* An optional value (Python's None or a value) is a sequence of at most one
\* element.
None == <<>>

Some(v) == <<v>>

IsWhite(c) == c \in {" ", "\t", "\n", "\r", CRLF}

UpperChars == <<"A","B","C","D","E","F","G","H","I","J","K","L","M",
                "N","O","P","Q","R","S","T","U","V","W","X","Y","Z">>

LowerChars == <<"a","b","c","d","e","f","g","h","i","j","k","l","m",
                "n","o","p","q","r","s","t","u","v","w","x","y","z">>

LowerChar(c) ==
    IF \E i \in 1..Len(UpperChars) : UpperChars[i] = c
    THEN LowerChars[CHOOSE i \in 1..Len(UpperChars) : UpperChars[i] = c]
    ELSE c

\* str.lower()
Lower(s) == [i \in 1..Len(s) |-> LowerChar(s[i])]

\* str.strip(): leading and trailing white space removed
Strip(s) ==
    LET keep == {i \in 1..Len(s) : ~IsWhite(s[i])}
    IN  IF keep = {} THEN <<>>
        ELSE LET lo == CHOOSE i \in keep : \A j \in keep : i <= j
                 hi == CHOOSE i \in keep : \A j \in keep : j <= i
             IN  SubSeq(s, lo, hi)

\* f.strip().lower() of lines 85 and 90
Normalize(s) == Lower(Strip(s))

\* Python's truth of a str-or-None value: "if not v"
Truthy(v) == v # None /\ v[1] # <<>>

DigitChars == <<"0","1","2","3","4","5","6","7","8","9">>

IsDigit(c) == \E i \in 1..10 : DigitChars[i] = c

DigitVal(c) == (CHOOSE i \in 1..10 : DigitChars[i] = c) - 1

RECURSIVE NumVal(_)
NumVal(s) ==
    IF s = <<>> THEN 0
    ELSE 10 * NumVal(SubSeq(s, 1, Len(s) - 1)) + DigitVal(s[Len(s)])

\* the parts of s between the occurrences of sep
RECURSIVE SplitOn(_, _)
SplitOn(s, sep) ==
    IF \A i \in 1..Len(s) : s[i] # sep THEN <<s>>
    ELSE LET k == CHOOSE i \in 1..Len(s) :
                      s[i] = sep /\ \A j \in 1..(i - 1) : s[j] # sep
         IN  <<SubSeq(s, 1, k - 1)>> \o SplitOn(SubSeq(s, k + 1, Len(s)), sep)

RECURSIVE Join(_, _)
Join(lines, sep) ==
    IF lines = <<>> THEN <<>>
    ELSE IF Len(lines) = 1 THEN lines[1]
    ELSE lines[1] \o <<sep>> \o Join(Tail(lines), sep)

RECURSIVE Flatten(_)
Flatten(blocks) ==
    IF blocks = <<>> THEN <<>> ELSE blocks[1] \o Flatten(Tail(blocks))

-----------------------------------------------------------------------------
(* Dates: datetime, strptime, strftime, timedelta *)

IsLeap(y) == y % 4 = 0 /\ (y % 100 # 0 \/ y % 400 = 0)

DaysInMonth(y, m) ==
    IF m = 2 THEN (IF IsLeap(y) THEN 29 ELSE 28)
    ELSE IF m \in {4, 6, 9, 11} THEN 30 ELSE 31

DateTime(y, mo, d, h, mi, s, us) ==
    [year |-> y, month |-> mo, day |-> d,
     hour |-> h, minute |-> mi, second |-> s, microsecond |-> us]

\* strptime's %d: 3[0-1] | [1-2]\d | 0[1-9] | [1-9] | " "[1-9]
MatchDay(p) ==
    \/ Len(p) = 2 /\ p[1] = "3" /\ p[2] \in {"0", "1"}
    \/ Len(p) = 2 /\ p[1] \in {"1", "2"} /\ IsDigit(p[2])
    \/ Len(p) = 2 /\ p[1] \in {"0", " "} /\ IsDigit(p[2]) /\ p[2] # "0"
    \/ Len(p) = 1 /\ IsDigit(p[1]) /\ p[1] # "0"

\* strptime's %m: 1[0-2] | 0[1-9] | [1-9]
MatchMonth(p) ==
    \/ Len(p) = 2 /\ p[1] = "1" /\ p[2] \in {"0", "1", "2"}
    \/ Len(p) = 2 /\ p[1] = "0" /\ IsDigit(p[2]) /\ p[2] # "0"
    \/ Len(p) = 1 /\ IsDigit(p[1]) /\ p[1] # "0"

\* strptime's %Y: \d\d\d\d
MatchYear(p) == Len(p) = 4 /\ \A i \in 1..4 : IsDigit(p[i])

FieldVal(p) == NumVal(SelectSeq(p, IsDigit))

\* datetime(y, m, d): None when the constructor raises ValueError
MakeDate(y, m, d) ==
    IF y >= 1 /\ d <= DaysInMonth(y, m)
    THEN Some(DateTime(y, m, d, 0, 0, 0, 0))
    ELSE None

\* datetime.strptime(s, '%d/%m/%Y'), None for ValueError
StrptimeDMY(s) ==
    LET p == SplitOn(s, "/")
    IN  IF Len(p) = 3 /\ MatchDay(p[1]) /\ MatchMonth(p[2]) /\ MatchYear(p[3])
        THEN MakeDate(FieldVal(p[3]), FieldVal(p[2]), FieldVal(p[1]))
        ELSE None

\* datetime.strptime(s, '%Y-%m-%d'), None for ValueError
StrptimeYMD(s) ==
    LET p == SplitOn(s, "-")
    IN  IF Len(p) = 3 /\ MatchYear(p[1]) /\ MatchMonth(p[2]) /\ MatchDay(p[3])
        THEN MakeDate(FieldVal(p[1]), FieldVal(p[2]), FieldVal(p[3]))
        ELSE None

parse_date(date_str) ==
    IF StrptimeDMY(date_str) # None THEN StrptimeDMY(date_str)
    ELSE StrptimeYMD(date_str)

Pad(n, width) ==
    [i \in 1..width |-> DigitChars[((n \div (10 ^ (width - i))) % 10) + 1]]

\* dt.strftime('%Y%m%dT%H%M%S'): the microsecond is not written
format_ics_date(dt) ==
    Pad(dt.year, 4) \o Pad(dt.month, 2) \o Pad(dt.day, 2) \o <<"T">>
        \o Pad(dt.hour, 2) \o Pad(dt.minute, 2) \o Pad(dt.second, 2)

RECURSIVE AddDays(_, _)
AddDays(dt, n) ==
    IF n = 0 THEN dt
    ELSE IF dt.day < DaysInMonth(dt.year, dt.month)
         THEN AddDays([dt EXCEPT !.day = @ + 1], n - 1)
    ELSE IF dt.month < 12
         THEN AddDays([dt EXCEPT !.day = 1, !.month = @ + 1], n - 1)
    ELSE AddDays([dt EXCEPT !.day = 1, !.month = 1, !.year = @ + 1], n - 1)

\* dt + timedelta(minutes=m)
AddMinutes(dt, m) ==
    LET secs == dt.hour * 3600 + dt.minute * 60 + dt.second + m * 60
        tod  == secs % 86400
    IN  AddDays([dt EXCEPT !.hour = tod \div 3600,
                           !.minute = (tod % 3600) \div 60,
                           !.second = tod % 60],
                secs \div 86400)

-----------------------------------------------------------------------------
(* The event block and the document *)

\* StartEvent with the hour left as it came
StartEventKeepsHour(start_date) ==
    [start_date EXCEPT !.minute = 0, !.second = 0]

\* line 27: start_date.replace(hour=9, minute=0, second=0)
StartEvent(start_date) ==
    [start_date EXCEPT !.hour = 9, !.minute = 0, !.second = 0]

\* line 28: start_event + timedelta(minutes=30)
EndEvent(start_date) == AddMinutes(StartEvent(start_date), 30)

\* The lines of one event.  uid is what uuid.uuid4() returned and now what
\* datetime.now() returned.
generate_event_block(subject, start_date, uid, now) ==
    << <<"BEGIN:VEVENT">>,
       <<"UID:", uid>>,
       <<"DTSTAMP:">> \o format_ics_date(now),
       <<"DTSTART;TZID=America/Sao_Paulo:">>
           \o format_ics_date(StartEvent(start_date)),
       <<"DTEND;TZID=America/Sao_Paulo:">>
           \o format_ics_date(EndEvent(start_date)),
       <<"SUMMARY:">> \o subject,
       <<"STATUS:CONFIRMED">>,
       <<"CLASS:PUBLIC">>,
       <<"BEGIN:VALARM">>,
       <<"ACTION:DISPLAY">>,
       <<"TRIGGER;RELATED=START:-PT15M">>,
       <<"DESCRIPTION:Lembrete", " ", "gerado", " ", "via", " ", "script",
         " ", "CSV">>,
       <<"END:VALARM">>,
       <<"END:VEVENT">> >>

IcsHeader ==
    << <<"BEGIN:VCALENDAR">>,
       <<"PRODID:-//CSV-to-ICS//Github//PT-BR">>,
       <<"VERSION:2.0">>,
       <<"METHOD:PUBLISH">>,
       <<"X-WR-CALNAME:Eventos", " ", "Importados">>,
       <<"BEGIN:VTIMEZONE">>,
       <<"TZID:America/Sao_Paulo">>,
       <<"BEGIN:STANDARD">>,
       <<"DTSTART:16010101T000000">>,
       <<"TZOFFSETTO:-0300">>,
       <<"TZOFFSETFROM:-0300">>,
       <<"TZNAME:-03">>,
       <<"END:STANDARD">>,
       <<"END:VTIMEZONE">> >>

generate_ics_structure(events_content) ==
    IcsHeader \o events_content \o << <<"END:VCALENDAR">> >>

\* line 121: '\r\n'.join(full_content)
DocumentText(full_content) == Join(full_content, CRLF)

-----------------------------------------------------------------------------
(* Reading the file: the text layer and csv.DictReader *)

\* Whether a line's bytes decode: "ascii" bytes decode under both encodings,
\* "cp1252" bytes (0xE9) under cp1252 only, "binary" bytes (0x81) under none.
Decodes(enc, line_enc) ==
    \/ line_enc = "ascii"
    \/ enc = "cp1252" /\ line_enc = "cp1252"

\* The file's lines, the header first.
FileLines == IF header = None THEN <<>> ELSE header \o rows

\* The data rows csv.DictReader yields: it skips the rows without a field.
IsBlank(j) == rows[j].fields = <<>>

\* The next row the reader yields after i rows were consumed, 0 at the end.
NextRow(i) ==
    IF \E j \in (i + 1)..Len(rows) : ~IsBlank(j)
    THEN CHOOSE j \in (i + 1)..Len(rows) :
             ~IsBlank(j) /\ \A k \in (i + 1)..(j - 1) : IsBlank(k)
    ELSE 0

\* The last line (1 is the header) the text layer has decoded once the reader
\* was handed line `upto`: it decodes by chunks, so up to `ahead` lines more.
DecodedUpTo(upto) ==
    IF upto + ahead < Len(FileLines) THEN upto + ahead ELSE Len(FileLines)

\* Reading the file under enc up to its line `line` (1 is the header, 0
\* stands for the end of the file) raises UnicodeDecodeError.
DecodeFails(enc, line) ==
    LET upto == IF line = 0 THEN Len(FileLines) ELSE DecodedUpTo(line)
    IN  \E k \in 1..upto : ~Decodes(enc, FileLines[k].enc)

\* The file line that holds data row j (0 stays 0: the end of the file).
LineOf(j) == IF j = 0 THEN 0 ELSE j + 1

\* One row of csv.DictReader, as the items of its dict in order: the fields
\* zipped with the header's names, the missing ones None (restval), the
\* surplus ones under the key None (restkey; their list is kept joined).
RowDict(names, fields) ==
    LET lf == Len(names)
        lr == Len(fields)
    IN  [i \in 1..lf |->
            [k |-> Some(names[i]),
             v |-> IF i <= lr THEN Some(fields[i]) ELSE None]]
        \o (IF lf < lr
            THEN <<[k |-> None, v |-> Some(Flatten(SubSeq(fields, lf + 1, lr)))]>>
            ELSE <<>>)

\* The items the comprehension of line 90 keeps: "if k".
KeptItems(names, fields) ==
    SelectSeq(RowDict(names, fields), LAMBDA it : Truthy(it.k))

\* Line 90 raises AttributeError: v.strip() of a value that is None.
CleanRaises(names, fields) ==
    LET items == KeptItems(names, fields)
    IN  \E i \in 1..Len(items) : items[i].v = None

\* Line 90: row_clean, as its items in order.
RowClean(names, fields) ==
    LET items == KeptItems(names, fields)
    IN  [i \in 1..Len(items) |->
            [k |-> Normalize(items[i].k[1]), v |-> Strip(items[i].v[1])]]

\* dict.get(key): the value stored last under key, or None.
Get(items, key) ==
    LET hits == {i \in 1..Len(items) : items[i].k = key}
    IN  IF hits = {} THEN None
        ELSE Some(items[CHOOSE i \in hits : \A j \in hits : j <= i].v)

\* lines 86-87: the configured name as it is looked up
TargetCol(col) == Lower(col)

\* lines 96-101
SubjectValue(names, fields, col, default) ==
    LET v == Get(RowClean(names, fields), TargetCol(col))
    IN  IF ~Truthy(v) THEN default ELSE v[1]

\* line 104
DateStr(names, fields, col) == Get(RowClean(names, fields), TargetCol(col))

-----------------------------------------------------------------------------
(* The inputs *)

Assunto == <<"A","s","s","u","n","t","o">>

Data == <<"D","a","t","a">>

Headers ==
    { [names |-> <<Assunto, Data>>, enc |-> "ascii"],
      [names |-> << <<" ","A","S","S","U","N","T","O"," ">>,
                    <<" ","d","a","t","a"," ">> >>, enc |-> "ascii"],
      [names |-> <<Data, Assunto>>, enc |-> "ascii"],
      [names |-> <<Data>>, enc |-> "ascii"],
      [names |-> <<Assunto>>, enc |-> "ascii"],
      [names |-> << <<"T","\\xED","t","u","l","o">>, Data >>, enc |-> "cp1252"] }

Rows ==
    { [fields |-> << <<"Dentist">>,
                     <<"2","0","/","0","5","/","2","0","2","4">> >>,
       enc |-> "ascii"],
      [fields |-> << <<>>,
                     <<"2","0","2","4","-","0","5","-","2","1">> >>,
       enc |-> "ascii"],
      [fields |-> << <<"X">>, <<" ">> >>, enc |-> "ascii"],
      [fields |-> << <<"Y">>, <<"b","a","d","-","d","a","t","e">> >>,
       enc |-> "ascii"],
      [fields |-> << <<"2","0","/","0","5","/","2","0","2","4">> >>,
       enc |-> "ascii"],
      [fields |-> <<>>, enc |-> "ascii"],
      [fields |-> << <<" ", "a", CRLF, "BEGIN:VEVENT", " ">>,
                     <<" ","1","/","3","/","2","0","2","4"," ">> >>,
       enc |-> "ascii"],
      [fields |-> << <<"Z">>,
                     <<"3","1","/","0","2","/","2","0","2","4">>,
                     <<"extra">> >>,
       enc |-> "ascii"],
      [fields |-> << <<"Caf\\xE9">>,
                     <<"2","0","/","0","5","/","2","0","2","4">> >>,
       enc |-> "cp1252"],
      [fields |-> << <<"\\x81">>,
                     <<"2","0","/","0","5","/","2","0","2","4">> >>,
       enc |-> "binary"] }

\* The command line: --col-subject, --col-date, --default-subject.
Configs ==
    { [subject |-> Assunto, date |-> Data,
       default |-> <<"Evento", " ", "Importado">>],
      [subject |-> <<"a","s","s","u","n","t","o">>,
       date |-> <<"D","A","T","A">>,
       default |-> <<"Sem", " ", "titulo">>],
      [subject |-> <<" ">> \o Assunto, date |-> Data \o <<" ">>,
       default |-> <<"Evento", " ", "Importado">>] }

RECURSIVE SeqsUpTo(_, _)
SeqsUpTo(S, n) ==
    IF n = 0 THEN {<<>>}
    ELSE LET shorter == SeqsUpTo(S, n - 1)
         IN  shorter \cup {Append(q, x) : q \in {r \in shorter : Len(r) = n - 1},
                                          x \in S}

\* What datetime.now() may return.
Nows == { DateTime(2026, 1, 31, 23, 59, 59, 250000),
          DateTime(2026, 2, 1, 0, 0, 0, 0) }

\* What one call of generate_event_block draws from its surroundings:
\* uuid.uuid4() and datetime.now().
Draws ==
    { [uid |-> "uuid-a", now |-> DateTime(2026, 1, 31, 23, 59, 59, 250000)],
      [uid |-> "uuid-b", now |-> DateTime(2026, 2, 1, 0, 0, 0, 0)] }

-----------------------------------------------------------------------------
(* process_csv *)

ProcessStart ==
    /\ pc = "open"
    /\ encoding = "none"
    /\ h_utf8 = "none" /\ h_cp1252 = "none" /\ h_out = "none"
    /\ idx = 0
    /\ ics_events = <<>>
    /\ processed_count = 0
    /\ outcomes = <<>>
    /\ subjects = <<>>
    /\ raised = "none"
    /\ out_opens = 0
    /\ out_file = None
    /\ reported = -1

Init ==
    /\ \/ /\ exists = TRUE
          /\ header \in {None} \cup {Some(h) : h \in Headers}
          /\ rows \in (IF header = None THEN {<<>>} ELSE SeqsUpTo(Rows, MaxRows))
       \/ /\ exists = FALSE
          /\ header = None
          /\ rows = <<>>
    /\ ahead \in 0..MaxAhead
    /\ \E c \in Configs :
          /\ col_subject = c.subject
          /\ col_date = c.date
          /\ default_subject = c.default
    /\ ProcessStart
    /\ ev_in = None
    /\ ev_out = None

env == <<exists, ahead, header, rows, col_subject, col_date, default_subject,
         ev_in, ev_out>>

\* What becomes of a handle nothing refers to any more and nothing closed:
\* a reference-counting runtime finalizes (closes) it at once, another
\* runtime leaves it open.
Dropped(h) == IF h = "open" THEN {"open", "closed"} ELSE {h}

\* lines 125-128: the handler that takes the exception, or "none"
HandlerFor(exc) ==
    IF exc = "FileNotFoundError" THEN "except FileNotFoundError"
    ELSE IF exc \in {"StopIteration", "UnicodeDecodeError", "AttributeError"}
         THEN "except Exception"
    ELSE "none"

\* line 75, the file missing
OpenMissing ==
    /\ pc = "open"
    /\ ~exists
    /\ raised' = "FileNotFoundError"
    /\ pc' = "except"
    /\ UNCHANGED <<env, encoding, h_utf8, h_cp1252, h_out, idx, ics_events,
                   processed_count, outcomes, subjects, out_opens, out_file,
                   reported>>

\* OpenInput that opens the output file too, to write it row by row
OpenInputAndOutput ==
    /\ pc = "open"
    /\ exists
    /\ h_utf8' = "open"
    /\ encoding' = "utf-8"
    /\ h_out' = "open"
    /\ out_opens' = out_opens + 1
    /\ out_file' = Some(<<>>)
    /\ pc' = "probe"
    /\ UNCHANGED <<env, h_cp1252, idx, ics_events, processed_count, outcomes,
                   subjects, raised, reported>>

\* line 75
OpenInput ==
    /\ pc = "open"
    /\ exists
    /\ h_utf8' = "open"
    /\ encoding' = "utf-8"
    /\ pc' = "probe"
    /\ UNCHANGED <<env, h_cp1252, h_out, idx, ics_events, processed_count,
                   outcomes, subjects, raised, out_opens, out_file, reported>>

\* lines 76-78: next(reader) reads the header and the first data row; then
\* the file is rewound and read by a new reader
ProbeOk ==
    /\ pc = "probe"
    /\ header # None /\ NextRow(0) # 0
    /\ ~DecodeFails("utf-8", LineOf(NextRow(0)))
    /\ pc' = "header"
    /\ UNCHANGED <<env, encoding, h_utf8, h_cp1252, h_out, idx, ics_events,
                   processed_count, outcomes, subjects, raised, out_opens,
                   out_file, reported>>

\* line 77 raises UnicodeDecodeError, line 79 takes it
ProbeDecodeError ==
    /\ pc = "probe"
    /\ DecodeFails("utf-8", LineOf(NextRow(0)))
    /\ pc' = "fallback"
    /\ UNCHANGED <<env, encoding, h_utf8, h_cp1252, h_out, idx, ics_events,
                   processed_count, outcomes, subjects, raised, out_opens,
                   out_file, reported>>

\* line 77 raises StopIteration: no data row (or no header) to read
ProbeStopIteration ==
    /\ pc = "probe"
    /\ header = None \/ NextRow(0) = 0
    /\ ~DecodeFails("utf-8", 0)
    /\ raised' = "StopIteration"
    /\ pc' = "except"
    /\ UNCHANGED <<env, encoding, h_utf8, h_cp1252, h_out, idx, ics_events,
                   processed_count, outcomes, subjects, out_opens, out_file,
                   reported>>

\* lines 80-81: file_obj is bound to a new handle, the first one is dropped
Fallback ==
    /\ pc = "fallback"
    /\ h_cp1252' = "open"
    /\ h_utf8' \in Dropped(h_utf8)
    /\ encoding' = "cp1252"
    /\ pc' = "header"
    /\ UNCHANGED <<env, h_out, idx, ics_events, processed_count, outcomes,
                   subjects, raised, out_opens, out_file, reported>>

\* The with block of line 83 is left: file_obj is closed.
CloseFileObj ==
    /\ h_utf8' = (IF encoding = "utf-8" THEN "closed" ELSE h_utf8)
    /\ h_cp1252' = (IF encoding = "cp1252" THEN "closed" ELSE h_cp1252)

\* lines 83-87
ReadHeader ==
    /\ pc = "header"
    /\ ~DecodeFails(encoding, 1)
    /\ pc' = "loop"
    /\ UNCHANGED <<env, encoding, h_utf8, h_cp1252, h_out, idx, ics_events,
                   processed_count, outcomes, subjects, raised, out_opens,
                   out_file, reported>>

\* line 85 raises UnicodeDecodeError
ReadHeaderDecodeError ==
    /\ pc = "header"
    /\ DecodeFails(encoding, 1)
    /\ raised' = "UnicodeDecodeError"
    /\ CloseFileObj
    /\ pc' = "except"
    /\ UNCHANGED <<env, encoding, h_out, idx, ics_events, processed_count,
                   outcomes, subjects, out_opens, out_file, reported>>

Fieldnames == header[1].names

\* line 89: the reader has no further row; the with block is left
EndOfRows ==
    /\ pc = "loop"
    /\ NextRow(idx) = 0
    /\ ~DecodeFails(encoding, 0)
    /\ idx' = Len(rows)
    /\ CloseFileObj
    /\ pc' = "write"
    /\ UNCHANGED <<env, encoding, h_out, ics_events, processed_count,
                   outcomes, subjects, raised, out_opens, out_file, reported>>

\* line 89 raises UnicodeDecodeError while the reader fetches the next row
RowDecodeError ==
    /\ pc = "loop"
    /\ DecodeFails(encoding, LineOf(NextRow(idx)))
    /\ raised' = "UnicodeDecodeError"
    /\ CloseFileObj
    /\ pc' = "except"
    /\ UNCHANGED <<env, encoding, h_out, idx, ics_events, processed_count,
                   outcomes, subjects, out_opens, out_file, reported>>

\* The loop takes the next row.
Fetch(j) ==
    /\ pc = "loop"
    /\ j = NextRow(idx)
    /\ j # 0
    /\ ~DecodeFails(encoding, LineOf(j))
    /\ idx' = j

\* line 90 raises AttributeError
RowRaises ==
    \E j \in 1..Len(rows) :
        /\ Fetch(j)
        /\ CleanRaises(Fieldnames, rows[j].fields)
        /\ raised' = "AttributeError"
        /\ CloseFileObj
        /\ pc' = "except"
        /\ UNCHANGED <<env, encoding, h_out, ics_events, processed_count,
                       outcomes, subjects, out_opens, out_file, reported>>

\* lines 104-108
RowNoDate ==
    \E j \in 1..Len(rows) :
        /\ Fetch(j)
        /\ ~CleanRaises(Fieldnames, rows[j].fields)
        /\ ~Truthy(DateStr(Fieldnames, rows[j].fields, col_date))
        /\ outcomes' = Append(outcomes, "SKIPPED_NO_DATE")
        /\ UNCHANGED <<env, pc, encoding, h_utf8, h_cp1252, h_out, ics_events,
                       processed_count, subjects, raised, out_opens, out_file,
                       reported>>

\* lines 110-113
RowInvalidDate ==
    \E j \in 1..Len(rows) :
        /\ Fetch(j)
        /\ ~CleanRaises(Fieldnames, rows[j].fields)
        /\ Truthy(DateStr(Fieldnames, rows[j].fields, col_date))
        /\ parse_date(DateStr(Fieldnames, rows[j].fields, col_date)[1]) = None
        /\ outcomes' = Append(outcomes, "SKIPPED_INVALID_DATE")
        /\ UNCHANGED <<env, pc, encoding, h_utf8, h_cp1252, h_out, ics_events,
                       processed_count, subjects, raised, out_opens, out_file,
                       reported>>

\* lines 115-116
RowAccepted ==
    \E j \in 1..Len(rows), draw \in Draws :
        /\ Fetch(j)
        /\ ~CleanRaises(Fieldnames, rows[j].fields)
        /\ Truthy(DateStr(Fieldnames, rows[j].fields, col_date))
        /\ LET dt_event ==
                   parse_date(DateStr(Fieldnames, rows[j].fields, col_date)[1])
               subject_value ==
                   SubjectValue(Fieldnames, rows[j].fields, col_subject,
                                default_subject)
           IN  /\ dt_event # None
               /\ ics_events' = ics_events \o
                      generate_event_block(subject_value, dt_event[1],
                                           draw.uid, draw.now)
               /\ subjects' = Append(subjects, subject_value)
        /\ processed_count' = processed_count + 1
        /\ outcomes' = Append(outcomes, "ACCEPTED")
        /\ UNCHANGED <<env, pc, encoding, h_utf8, h_cp1252, h_out, raised,
                       out_opens, out_file, reported>>

\* line 120: the output file is opened for writing, which empties it
OpenOutput ==
    /\ pc = "write"
    /\ h_out' = "open"
    /\ out_opens' = out_opens + 1
    /\ out_file' = Some(<<>>)
    /\ pc' = "writing"
    /\ UNCHANGED <<env, encoding, h_utf8, h_cp1252, idx, ics_events,
                   processed_count, outcomes, subjects, raised, reported>>

\* lines 118 and 121-123
WriteOutput ==
    /\ pc = "writing"
    /\ out_file' = Some(DocumentText(generate_ics_structure(ics_events)))
    /\ h_out' = "closed"
    /\ reported' = processed_count
    /\ pc' = "done"
    /\ UNCHANGED <<env, encoding, h_utf8, h_cp1252, idx, ics_events,
                   processed_count, outcomes, subjects, raised, out_opens>>

\* lines 125-128: the exception is logged and process_csv returns, which
\* drops file_obj; an exception no handler takes leaves process_csv
Except ==
    /\ pc = "except"
    /\ pc' = (IF HandlerFor(raised) = "none" THEN "propagated" ELSE "done")
    /\ h_utf8' \in Dropped(h_utf8)
    /\ h_cp1252' \in Dropped(h_cp1252)
    /\ UNCHANGED <<env, encoding, h_out, idx, ics_events, processed_count,
                   outcomes, subjects, raised, out_opens, out_file, reported>>

Next ==
    \/ OpenMissing
    \/ OpenInput
    \/ ProbeOk
    \/ ProbeDecodeError
    \/ ProbeStopIteration
    \/ Fallback
    \/ ReadHeader
    \/ ReadHeaderDecodeError
    \/ EndOfRows
    \/ RowDecodeError
    \/ RowRaises
    \/ RowNoDate
    \/ RowInvalidDate
    \/ RowAccepted
    \/ OpenOutput
    \/ WriteOutput
    \/ Except

Spec == Init /\ [][Next]_vars

-----------------------------------------------------------------------------
(* generate_event_block on its own, for start dates with any time of day *)

EventDates ==
    { DateTime(2026, 1, 1, 0, 0, 0, 0),
      DateTime(2024, 2, 29, 0, 0, 0, 0),
      DateTime(2023, 12, 31, 0, 0, 0, 0),
      DateTime(9999, 12, 31, 0, 0, 0, 0) }

StartDates ==
    { [d EXCEPT !.hour = h, !.minute = mi, !.second = sec, !.microsecond = us] :
        d \in EventDates, h \in {0, 9, 23}, mi \in {0, 30, 59},
        sec \in {0, 59}, us \in {0, 999999} }

InitEvent ==
    /\ ev_in \in { Some([subject |-> sub, start_date |-> d, uid |-> u, now |-> n]) :
                     sub \in { <<"Dentist">>, <<"a", " ", "b">> },
                     d \in StartDates, u \in {"uuid-a"}, n \in Nows }
    /\ ev_out = None
    /\ exists = FALSE /\ header = None /\ rows = <<>> /\ ahead = 0
    /\ col_subject = Assunto /\ col_date = Data
    /\ default_subject = <<"Evento", " ", "Importado">>
    /\ pc = "idle"
    /\ encoding = "none"
    /\ h_utf8 = "none" /\ h_cp1252 = "none" /\ h_out = "none"
    /\ idx = 0
    /\ ics_events = <<>>
    /\ processed_count = 0
    /\ outcomes = <<>>
    /\ subjects = <<>>
    /\ raised = "none"
    /\ out_opens = 0
    /\ out_file = None
    /\ reported = -1

BuildEvent ==
    /\ ev_in # None
    /\ ev_out = None
    /\ ev_out' = Some(generate_event_block(ev_in[1].subject, ev_in[1].start_date,
                                           ev_in[1].uid, ev_in[1].now))
    /\ UNCHANGED <<exists, ahead, header, rows, col_subject, col_date,
                   default_subject, ev_in, pc, encoding, h_utf8, h_cp1252,
                   h_out, idx, ics_events, processed_count, outcomes, subjects,
                   raised, out_opens, out_file, reported>>

NextEvent == BuildEvent

SpecEvent == InitEvent /\ [][NextEvent]_vars

-----------------------------------------------------------------------------
(* What the properties speak of *)

Returned == pc \in {"done", "propagated"}

\* The rows csv.DictReader yields, and the place of row j among them.
DataRows == {j \in 1..Len(rows) : ~IsBlank(j)}

Ord(j) == Cardinality({k \in DataRows : k <= j})

\* The rows the loop has taken so far.
Taken == {j \in DataRows : j <= idx}

HasOutcome(j) == Ord(j) <= Len(outcomes)

\* The header's columns whose trimmed, lowercased name is key.
ColumnsKeyed(key) ==
    IF header = None THEN {}
    ELSE {i \in 1..Len(Fieldnames) : Normalize(Fieldnames[i]) = key}

\* The trimmed text row j holds in the column keyed key; None when the
\* header has no such column or the row has no such field.
CellTextBy(j, key) ==
    LET all  == ColumnsKeyed(key)
        cols == {i \in all : i <= Len(rows[j].fields)}
    IN  IF all = {} \/ cols # all THEN None
        ELSE Some(Strip(rows[j].fields[CHOOSE i \in cols : \A k \in cols : k <= i]))

\* The cell of the column a configured name selects, the name looked up the
\* way the program looks it up.
CellText(j, col) == CellTextBy(j, TargetCol(col))

\* The same with the configured name trimmed and lowercased like the header's.
CellTextNormalized(j, col) == CellTextBy(j, Normalize(col))

\* Every line of the file is text under one of the two encodings.
Readable == \A k \in 1..Len(FileLines) : Decodes("cp1252", FileLines[k].enc)

HasValidDate(j) ==
    /\ Truthy(CellText(j, col_date))
    /\ parse_date(CellText(j, col_date)[1]) # None

NumValidDates == Cardinality({j \in DataRows : HasValidDate(j)})

IsLine(l, atom) == l = <<atom>>

NumBlocks(lines) == Len(SelectSeq(lines, LAMBDA l : IsLine(l, "BEGIN:VEVENT")))

\* The k-th ACCEPTED among the outcomes is at place Ord(j).
AcceptedBefore(j) ==
    Cardinality({k \in 1..Ord(j) : outcomes[k] = "ACCEPTED"})

BlockLen ==
    Len(generate_event_block(<<>>, DateTime(2026, 1, 1, 0, 0, 0, 0), "uuid-a",
                             DateTime(2026, 1, 1, 0, 0, 0, 0)))

Count(lines, atom) == Len(SelectSeq(lines, LAMBDA l : IsLine(l, atom)))

\* The text, read line by line, is a calendar of n events with these
\* subjects in this order.
WellFormed(text, n, subj) ==
    LET L == SplitOn(text, CRLF)
        H == Len(IcsHeader)
    IN  /\ Len(L) = H + n * BlockLen + 1
        /\ SubSeq(L, 1, H) = IcsHeader
        /\ L[Len(L)] = <<"END:VCALENDAR">>
        /\ Count(L, "BEGIN:VCALENDAR") = 1
        /\ Count(L, "END:VCALENDAR") = 1
        /\ Count(L, "BEGIN:VTIMEZONE") = 1
        /\ Count(L, "END:VTIMEZONE") = 1
        /\ Count(L, "BEGIN:VEVENT") = n
        /\ Count(L, "END:VEVENT") = n
        /\ \A k \in 1..n :
              /\ L[H + (k - 1) * BlockLen + 1] = <<"BEGIN:VEVENT">>
              /\ L[H + (k - 1) * BlockLen + 6] = <<"SUMMARY:">> \o subj[k]
              /\ L[H + k * BlockLen] = <<"END:VEVENT">>

-----------------------------------------------------------------------------
(* Properties *)

\* C1: once process_csv has returned from a readable file, the rows it
\* accepted, and the event blocks it appended, are as many as the data rows
\* whose trimmed date text is non-empty and is a date in one of the two
\* layouts; the count it reports, when it reports one, is that number; a row
\* whose non-empty date text is in neither layout is SKIPPED_INVALID_DATE.
C1_AcceptedCountIsValidDateCount ==
    /\ (Returned /\ Readable) =>
          /\ processed_count = NumValidDates
          /\ NumBlocks(ics_events) = NumValidDates
          /\ reported # -1 => reported = NumValidDates
    /\ \A j \in Taken :
          (HasOutcome(j) /\ Truthy(CellText(j, col_date)) /\ ~HasValidDate(j))
              => outcomes[Ord(j)] = "SKIPPED_INVALID_DATE"

\* C2: every data row the loop has taken whose date column is absent (no
\* such column in the header, or no such field in the row) or empty after
\* trimming has the outcome SKIPPED_NO_DATE, and the run was not aborted by it.
C2_NoDateRowIsSkipped ==
    \A j \in Taken :
        ~Truthy(CellText(j, col_date))
            => HasOutcome(j) /\ outcomes[Ord(j)] = "SKIPPED_NO_DATE"

\* C3: every row the loop has taken is accepted or skipped on its date alone
\* (a row with a valid date is accepted whatever its subject column holds),
\* and the subject of an accepted row is its trimmed subject text when the
\* subject column is present and non-empty, the default subject otherwise.
C3_SubjectOrDefault ==
    \A j \in Taken :
        /\ HasValidDate(j) => HasOutcome(j) /\ outcomes[Ord(j)] = "ACCEPTED"
        /\ (HasOutcome(j) /\ outcomes[Ord(j)] = "ACCEPTED") =>
              subjects[AcceptedBefore(j)] =
                  (IF Truthy(CellText(j, col_subject))
                   THEN CellText(j, col_subject)[1]
                   ELSE default_subject)

\* C4: the text a successful run has written is a well-formed calendar: the
\* header, one timezone block, one complete event block per accepted row in
\* row order, the terminator.
C4_DocumentWellFormed ==
    (pc = "done" /\ raised = "none")
        => WellFormed(out_file[1], processed_count, subjects)

\* C5: the event built from any start date starts on that date at 09:00:00
\* and ends 30 minutes later, at 09:30:00 of the same date.
C5_StartNineEndHalfPast ==
    ev_out # None =>
        LET d     == ev_in[1].start_date
            start == StartEvent(d)
            end   == EndEvent(d)
            day   == Pad(d.year, 4) \o Pad(d.month, 2) \o Pad(d.day, 2)
        IN  /\ ev_out[1][4] = <<"DTSTART;TZID=America/Sao_Paulo:">> \o day
                                  \o <<"T", "0", "9", "0", "0", "0", "0">>
            /\ ev_out[1][5] = <<"DTEND;TZID=America/Sao_Paulo:">> \o day
                                  \o <<"T", "0", "9", "3", "0", "0", "0">>
            /\ <<start.year, start.month, start.day>> = <<d.year, d.month, d.day>>
            /\ <<start.hour, start.minute, start.second>> = <<9, 0, 0>>
            /\ <<end.year, end.month, end.day>> = <<d.year, d.month, d.day>>
            /\ (end.hour * 3600 + end.minute * 60 + end.second)
                   - (start.hour * 3600 + start.minute * 60 + start.second)
               = 30 * 60
            /\ end.microsecond = start.microsecond

\* C5: an event was built from a start date late in its day.
C5_Witness ==
    /\ ev_out # None
    /\ ev_in[1].start_date.hour = 23
    /\ ev_in[1].start_date.minute = 59
    /\ ev_in[1].start_date.microsecond # 0

\* C6: the output file is opened at most once, and only when every row has
\* been taken without an exception; a run that an exception ended has left
\* the output file untouched; no exception leaves process_csv.
C6_OutputOnlyAfterAllRows ==
    /\ out_opens <= 1
    /\ pc # "propagated"
    /\ (out_opens > 0 \/ out_file # None \/ h_out # "none") =>
          /\ raised = "none"
          /\ idx = Len(rows)
          /\ Len(outcomes) = Cardinality(DataRows)
    /\ raised # "none" =>
          out_opens = 0 /\ out_file = None /\ h_out = "none"

\* C6: a run was ended by an exception after it had accepted a row.
C6_Witness ==
    /\ pc = "done"
    /\ raised = "UnicodeDecodeError"
    /\ processed_count > 0
    /\ out_file = None

\* C7: a run ends on a decoding error only if some line of the file decodes
\* under neither encoding: a file that cp1252 decodes is read to its end.
C7_FallbackWhereverBytesLie ==
    raised = "UnicodeDecodeError"
        => \E k \in 1..Len(FileLines) : ~Decodes("cp1252", FileLines[k].enc)

\* C8: a configured date column name that differs from a header name only in
\* letter case or in leading and trailing white space selects that column: a
\* row with text in it is not skipped for want of a date.
C8_ConfiguredNamesNormalized ==
    \A j \in Taken :
        (HasOutcome(j) /\ Truthy(CellTextNormalized(j, col_date)))
            => outcomes[Ord(j)] # "SKIPPED_NO_DATE"

\* C9: a run on a readable file without data rows (a header alone, or
\* nothing) is not fatal: it writes the document without events and reports 0.
C9_NoRowsStillWrites ==
    (Returned /\ exists /\ DataRows = {}
        /\ \A k \in 1..Len(FileLines) : Decodes("utf-8", FileLines[k].enc))
        => /\ raised = "none"
           /\ reported = 0
           /\ out_file = Some(DocumentText(generate_ics_structure(<<>>)))

\* C10: when process_csv has returned, no file handle it opened is open.
C10_HandlesClosedOnReturn ==
    Returned => h_utf8 # "open" /\ h_cp1252 # "open" /\ h_out # "open"

=============================================================================
